---- MODULE Spec2Model ----
(***************************************************************************)
(* ConfigManager (src/config_manager.py): the constructor loads a merged   *)
(* configuration and runs six checks, a logging step and a summary print,  *)
(* in a fixed order.  The first check that raises ends the construction.   *)
(*                                                                         *)
(* A configuration value is a tagged record [t, v]: t is the Python type   *)
(* of the value ("str", "int", "bool"), "NoneType" for None, and "absent"  *)
(* for a field that is not in the mapping; v is its text.                  *)
(***************************************************************************)
EXTENDS Integers, Sequences, FiniteSets, TLC

VARIABLES config, domain_name, secrets_exists, pc, error, stdout, root_level, log

vars == <<config, domain_name, secrets_exists, pc, error, stdout, root_level, log>>

(***************************************************************************)
(* Values                                                                  *)
(***************************************************************************)
StrVal(s) == [t |-> "str", v |-> s]
IntVal(s) == [t |-> "int", v |-> s]
BoolVal(s) == [t |-> "bool", v |-> s]
None == [t |-> "NoneType", v |-> "None"]
Absent == [t |-> "absent", v |-> ""]

\* isinstance(x, str)
IsInstanceStr(x) == x.t = "str"

\* isinstance(x, int): bool is a subclass of int in Python
IsInstanceInt(x) == x.t \in {"int", "bool"}

\* isinstance(x, bool)
IsInstanceBool(x) == x.t = "bool"

\* Python truth value of x, as `not api_key` evaluates it
Truthy(x) ==
    CASE x.t = "str" -> x.v # ""
      [] x.t = "int" -> x.v # "0"
      [] x.t = "bool" -> x.v = "True"
      [] OTHER -> FALSE

(***************************************************************************)
(* Names                                                                   *)
(***************************************************************************)
\* how many keys, entries or values of a configuration differ from the valid one
MaxEdits == 2

MinApiKeyLen == 10

SampleDomain == "sample_domain"

Domains == {"sample_domain", "extra_domain", "third_domain"}

\* attributes every mapping object of the loader has besides its keys
BoxMethods == {"to_dict", "get"}

DomainIds == Domains \cup {"ghost_domain", "to_dict"}

required_keys == <<"cloud_details", "database_details", "model_type", "features", "cloud_secrets">>

TopKeys == {required_keys[i] : i \in 1..Len(required_keys)} \cup {"log_level"}

secrets_path == "/home/samiksha889/project/config_manager/config/secrets.yaml"

Placeholder == "REPLACE_ME"

LoggingLevels ==
    [CRITICAL |-> 50, FATAL |-> 50, ERROR |-> 40, WARNING |-> 30, WARN |-> 30,
     INFO |-> 20, DEBUG |-> 10, NOTSET |-> 0]

\* str.upper() on the level names that occur
Upper(s) ==
    CASE s = "debug" -> "DEBUG"
      [] s = "error" -> "ERROR"
      [] s = "Warning" -> "WARNING"
      [] s = "verbose" -> "VERBOSE"
      [] OTHER -> s

(***************************************************************************)
(* Merged configurations                                                   *)
(***************************************************************************)
ModelTypes == {StrVal("gpt-like"), IntVal("7")}
FeatureFlags == {BoolVal("True"), BoolVal("False"), StrVal("yes"), Absent}
Ports == {IntVal("5432"), StrVal("5432"), BoolVal("True"), Absent}
Providers == {StrVal("aws"), StrVal("gcp"), IntVal("1"), Absent}
ApiKeys ==
    {StrVal("sk-1234567890abcdef"), StrVal(""), StrVal(Placeholder), StrVal("sk-1234567"),
     IntVal("12345678901"), Absent}
LogLevels == {StrVal("debug"), StrVal("ERROR"), StrVal("verbose"), IntVal("10")}

\* the configuration the unit tests expect, with every domain configured
BaseConfig ==
    [keys |-> TopKeys \ {"log_level"},
     model_type |-> StrVal("gpt-like"),
     features |-> BoolVal("True"),
     database_details |-> [d \in Domains |-> IntVal("5432")],
     cloud_details |->
        [d \in Domains |-> IF d = SampleDomain THEN StrVal("aws") ELSE StrVal("gcp")],
     cloud_secrets |-> [d \in Domains |-> StrVal("sk-1234567890abcdef")],
     log_level |-> StrVal("INFO")]

Without(f, d) == [x \in (DOMAIN f) \ {d} |-> f[x]]
With(f, d, val) == [x \in (DOMAIN f) \cup {d} |-> IF x = d THEN val ELSE f[x]]

\* the values a section may hold for a domain
SectionValues(section) ==
    CASE section = "database_details" -> Ports
      [] section = "cloud_details" -> Providers
      [] section = "cloud_secrets" -> ApiKeys

Sections == {"database_details", "cloud_details", "cloud_secrets"}

\* one change to a configuration: a key dropped, a value set, a domain entry dropped or set
EditOps ==
    {[op |-> "drop", key |-> k, d |-> "", val |-> None] : k \in TopKeys \ {"log_level"}}
    \cup {[op |-> "set", key |-> "model_type", d |-> "", val |-> x] : x \in ModelTypes}
    \cup {[op |-> "set", key |-> "features", d |-> "", val |-> x] : x \in FeatureFlags}
    \cup {[op |-> "set", key |-> "log_level", d |-> "", val |-> x] : x \in LogLevels}
    \cup {[op |-> "drop", key |-> s, d |-> d, val |-> None] : s \in Sections, d \in Domains}
    \cup UNION {{[op |-> "set", key |-> s, d |-> d, val |-> x] : x \in SectionValues(s)} :
                s \in Sections, d \in Domains}

Apply(c, e) ==
    CASE e.op = "drop" /\ e.d = "" -> [c EXCEPT !.keys = @ \ {e.key}]
      [] e.op = "set" /\ e.key = "model_type" -> [c EXCEPT !.model_type = e.val]
      [] e.op = "set" /\ e.key = "features" -> [c EXCEPT !.features = e.val]
      [] e.op = "set" /\ e.key = "log_level" ->
            [c EXCEPT !.keys = @ \cup {"log_level"}, !.log_level = e.val]
      [] e.op = "drop" /\ e.d # "" -> [c EXCEPT ![e.key] = Without(@, e.d)]
      [] e.op = "set" /\ e.d # "" -> [c EXCEPT ![e.key] = With(@, e.d, e.val)]

\* c after the first n changes of es
RECURSIVE ApplyAll(_, _, _)
ApplyAll(c, es, n) == IF n = 0 THEN c ELSE Apply(ApplyAll(c, es, n - 1), es[n])

(***************************************************************************)
(* Exceptions and printed lines                                            *)
(***************************************************************************)
NoError == [kind |-> "none", msg |-> "", arg |-> {}]
ValueError(m, a) == [kind |-> "ValueError", msg |-> m, arg |-> a]
TypeError(m) == [kind |-> "TypeError", msg |-> m, arg |-> {}]
AttributeError(a) == [kind |-> "AttributeError", msg |-> "object has no attribute", arg |-> {a}]
FileNotFoundError(p) == [kind |-> "FileNotFoundError", msg |-> "Config file not found: ", arg |-> {p}]

Line(text, val) == [text |-> text, val |-> val]

\* hasattr(box, name) on a mapping of the loader
HasAttr(box, name) == name \in DOMAIN box \/ name \in BoxMethods

\* box.get(name): None when the field is not there
Get(box, name) == IF name \in DOMAIN box /\ box[name] # Absent THEN box[name] ELSE None

Min(S) == CHOOSE i \in S : \A j \in S : i <= j

(***************************************************************************)
(* The checks: the exception each raises, NoError when it passes           *)
(***************************************************************************)
Max(S) == CHOOSE i \in S : \A j \in S : i >= j

\* a loop that keeps the last missing key instead of raising at the first
RequiredKeysError_LastMissing(c) ==
    LET missing == {i \in 1..Len(required_keys) : required_keys[i] \notin c.keys}
    IN  IF missing = {} THEN NoError
        ELSE ValueError("Missing required config key: ", {required_keys[Max(missing)]})

RequiredKeysError(c) ==
    LET missing == {i \in 1..Len(required_keys) : required_keys[i] \notin c.keys}
    IN  IF missing = {} THEN NoError
        ELSE ValueError("Missing required config key: ", {required_keys[Min(missing)]})

\* box.<SampleDomain>.<field>: the exception of the attribute access, if any
AccessError(box, field) ==
    IF SampleDomain \notin DOMAIN box THEN AttributeError(SampleDomain)
    ELSE IF box[SampleDomain] = Absent THEN AttributeError(field)
    ELSE NoError

TypesError(c) ==
    IF ~IsInstanceStr(c.model_type) THEN TypeError("model_type must be a string")
    ELSE IF AccessError(c.database_details, "port") # NoError
        THEN AccessError(c.database_details, "port")
    ELSE IF ~IsInstanceInt(c.database_details[SampleDomain])
        THEN TypeError("Database port must be an integer")
    ELSE IF AccessError(c.cloud_details, "provider") # NoError
        THEN AccessError(c.cloud_details, "provider")
    ELSE IF ~IsInstanceStr(c.cloud_details[SampleDomain])
        THEN TypeError("Provider must be a string")
    ELSE IF c.features = Absent THEN AttributeError("enable_feature_x")
    ELSE IF ~IsInstanceBool(c.features) THEN TypeError("Feature flag must be a boolean")
    ELSE IF AccessError(c.cloud_secrets, "api_key") # NoError
        THEN AccessError(c.cloud_secrets, "api_key")
    ELSE IF ~IsInstanceStr(c.cloud_secrets[SampleDomain])
        THEN TypeError("API key must be a string")
    ELSE NoError

ApiKeyError(c) ==
    LET api_key == Get(c.cloud_secrets, SampleDomain)
    IN  IF ~Truthy(api_key) \/ api_key = StrVal(Placeholder)
        THEN ValueError("Missing or placeholder API key for cloud provider", {})
        ELSE NoError

\* the existence test left out
SecretsFileError_Skipped(exists) == NoError

SecretsFileError(exists) == IF ~exists THEN FileNotFoundError(secrets_path) ELSE NoError

\* the set difference taken the other way round
DomainMappingsError_Reversed(c) ==
    LET cloud_domains == DOMAIN c.cloud_details
        db_domains == DOMAIN c.database_details
        missing_in_cloud == cloud_domains \ db_domains
    IN  IF missing_in_cloud # {}
        THEN ValueError("Domains in DB config missing in cloud config: ", missing_in_cloud)
        ELSE NoError

DomainMappingsError(c) ==
    LET cloud_domains == DOMAIN c.cloud_details
        db_domains == DOMAIN c.database_details
        missing_in_cloud == db_domains \ cloud_domains
    IN  IF missing_in_cloud # {}
        THEN ValueError("Domains in DB config missing in cloud config: ", missing_in_cloud)
        ELSE NoError

DomainConfigError(c, d) ==
    IF ~HasAttr(c.database_details, d) THEN ValueError("No DB config for domain: ", {d})
    ELSE NoError

\* self.config.get("log_level", "INFO").upper()
LogLevelError(c) ==
    LET log_level == IF "log_level" \in c.keys THEN c.log_level ELSE StrVal("INFO")
    IN  IF ~IsInstanceStr(log_level) THEN AttributeError("upper") ELSE NoError

\* getattr(logging, log_level, logging.INFO)
LogLevel(c) ==
    LET log_level == IF "log_level" \in c.keys THEN c.log_level ELSE StrVal("INFO")
        name == Upper(log_level.v)
    IN  IF name \in DOMAIN LoggingLevels THEN LoggingLevels[name] ELSE LoggingLevels.INFO

(***************************************************************************)
(* The constructor                                                         *)
(***************************************************************************)
\* the secrets file looked for before the API key is examined
Successor_SecretsFirst(m) ==
    CASE m = "validate_required_keys" -> "validate_types"
      [] m = "validate_types" -> "check_secrets_file"
      [] m = "check_secrets_file" -> "check_api_key"
      [] m = "check_api_key" -> "check_domain_mappings"
      [] m = "check_domain_mappings" -> "check_domain_config"
      [] m = "check_domain_config" -> "log_loaded_config"
      [] m = "log_loaded_config" -> "read_config"
      [] m = "read_config" -> "done"

\* the call that follows method m in __init__
Successor(m) ==
    CASE m = "validate_required_keys" -> "validate_types"
      [] m = "validate_types" -> "check_api_key"
      [] m = "check_api_key" -> "check_secrets_file"
      [] m = "check_secrets_file" -> "check_domain_mappings"
      [] m = "check_domain_mappings" -> "check_domain_config"
      [] m = "check_domain_config" -> "log_loaded_config"
      [] m = "log_loaded_config" -> "read_config"
      [] m = "read_config" -> "done"

\* the line method m prints when it passes
Confirmation(m, d) ==
    CASE m = "validate_required_keys" -> <<Line("All required keys are present.", None)>>
      [] m = "validate_types" -> <<Line("All type checks passed successfully.", None)>>
      [] m = "check_api_key" -> <<Line("API key is valid.", None)>>
      [] m = "check_secrets_file" -> <<Line("Secrets file found: ", StrVal(secrets_path))>>
      [] m = "check_domain_mappings" ->
            <<Line("Cloud and DB domain mappings are consistent.", None)>>
      [] m = "check_domain_config" ->
            <<Line("Domain is present in database config: ", StrVal(d))>>
      [] OTHER -> <<>>

Init ==
    /\ \E es \in [1..MaxEdits -> EditOps] :
          config = ApplyAll(BaseConfig, es, MaxEdits)
    /\ domain_name \in DomainIds
    /\ secrets_exists \in BOOLEAN
    /\ pc = "validate_required_keys"
    /\ error = NoError
    /\ stdout = <<>>
    /\ root_level = LoggingLevels.WARNING
    /\ log = <<>>

\* method m raises e, or prints its lines and returns
Run(m, e, lines) ==
    /\ pc = m
    /\ error = NoError
    /\ IF e # NoError
       THEN error' = e /\ UNCHANGED <<pc, stdout>>
       ELSE stdout' = stdout \o lines /\ pc' = Successor(m) /\ UNCHANGED error
    /\ UNCHANGED <<config, domain_name, secrets_exists>>

validate_required_keys ==
    /\ Run("validate_required_keys", RequiredKeysError(config),
           Confirmation("validate_required_keys", domain_name))
    /\ UNCHANGED <<root_level, log>>

validate_types ==
    /\ Run("validate_types", TypesError(config),
           Confirmation("validate_types", domain_name))
    /\ UNCHANGED <<root_level, log>>

check_api_key ==
    /\ Run("check_api_key", ApiKeyError(config),
           Confirmation("check_api_key", domain_name))
    /\ UNCHANGED <<root_level, log>>

check_secrets_file ==
    /\ Run("check_secrets_file", SecretsFileError(secrets_exists),
           Confirmation("check_secrets_file", domain_name))
    /\ UNCHANGED <<root_level, log>>

check_domain_mappings ==
    /\ Run("check_domain_mappings", DomainMappingsError(config),
           Confirmation("check_domain_mappings", domain_name))
    /\ UNCHANGED <<root_level, log>>

check_domain_config ==
    /\ Run("check_domain_config", DomainConfigError(config, domain_name),
           Confirmation("check_domain_config", domain_name))
    /\ UNCHANGED <<root_level, log>>

log_loaded_config ==
    /\ Run("log_loaded_config", LogLevelError(config), <<>>)
    /\ IF LogLevelError(config) # NoError
       THEN UNCHANGED <<root_level, log>>
       ELSE /\ root_level' = LogLevel(config)
            /\ log' = IF LoggingLevels.INFO >= LogLevel(config)
                      THEN Append(log, [domain |-> domain_name, model |-> config.model_type])
                      ELSE log

\* the four lines read_config prints
Summary(c) ==
    <<Line("Provider:", c.cloud_details[SampleDomain]),
      Line("Region (model_type):", c.model_type),
      Line("Feature Enabled:", c.features),
      Line("API Key:", c.cloud_secrets[SampleDomain])>>

read_config ==
    /\ Run("read_config", NoError, Summary(config))
    /\ UNCHANGED <<root_level, log>>

Next ==
    \/ validate_required_keys
    \/ validate_types
    \/ check_api_key
    \/ check_secrets_file
    \/ check_domain_mappings
    \/ check_domain_config
    \/ log_loaded_config
    \/ read_config

Spec == Init /\ [][Next]_vars

(***************************************************************************)
(* Properties                                                              *)
(***************************************************************************)
Terminal == error # NoError \/ pc = "done"

Checks ==
    <<"validate_required_keys", "validate_types", "check_api_key", "check_secrets_file",
      "check_domain_mappings", "check_domain_config">>

Steps == Checks \o <<"log_loaded_config", "read_config", "done">>

Position(m) == CHOOSE i \in 1..Len(Steps) : Steps[i] = m

\* the exception check m raises on the configuration, file and domain at hand
CheckError(m) ==
    CASE m = "validate_required_keys" -> RequiredKeysError(config)
      [] m = "validate_types" -> TypesError(config)
      [] m = "check_api_key" -> ApiKeyError(config)
      [] m = "check_secrets_file" -> SecretsFileError(secrets_exists)
      [] m = "check_domain_mappings" -> DomainMappingsError(config)
      [] m = "check_domain_config" -> DomainConfigError(config, domain_name)

FirstViolated ==
    LET bad == {i \in 1..Len(Checks) : CheckError(Checks[i]) # NoError}
    IN  IF bad = {} THEN 0 ELSE Min(bad)

\* the confirmations of the first n checks, in order
RECURSIVE Printed(_)
Printed(n) == IF n = 0 THEN <<>> ELSE Printed(n - 1) \o Confirmation(Checks[n], domain_name)

\* C1: the six checks run in the order required keys, types, API key, secrets
\* file, domain mappings, domain presence; the first of them, in that order,
\* whose test fails on the configuration, file state and domain is the one
\* whose error is raised, nothing after it runs, the confirmations printed are
\* exactly those of the checks before it, and the log line and the summary
\* appear only when all six pass.
C1_FirstViolatedCheckDecides ==
    LET f == FirstViolated
        k == Position(pc)
    IN  /\ k <= Len(Checks) => stdout = Printed(k - 1)
        /\ k > Len(Checks) => SubSeq(stdout, 1, Len(Checks)) = Printed(Len(Checks))
        /\ (error # NoError /\ k <= Len(Checks)) => f = k
        /\ f # 0 =>
              /\ k <= f
              /\ error # NoError => error = CheckError(Checks[f])
              /\ log = <<>>
              /\ root_level = LoggingLevels.WARNING
              /\ Len(stdout) < Len(Checks)
        /\ (log # <<>> \/ Len(stdout) > Len(Checks)) => f = 0

\* the API-key check raised although the secrets file is missing too
C1_Witness ==
    /\ pc = "check_api_key"
    /\ error # NoError
    /\ ~secrets_exists
    /\ Len(stdout) = 2

RequiredPresent == \A i \in 1..Len(required_keys) : required_keys[i] \in config.keys

\* the value a section holds for domain d, Absent when it has none
FieldOf(section, d) == IF d \in DOMAIN section THEN section[d] ELSE Absent

\* the messages of the typed fields of domain d that hold a value of another type
WrongTyped(c, d) ==
    {m \in {"model_type must be a string", "Database port must be an integer",
            "Provider must be a string", "Feature flag must be a boolean",
            "API key must be a string"} :
        \/ m = "model_type must be a string" /\ c.model_type.t # "str"
        \/ /\ m = "Database port must be an integer"
           /\ FieldOf(c.database_details, d).t \notin {"int", "absent"}
        \/ /\ m = "Provider must be a string"
           /\ FieldOf(c.cloud_details, d).t \notin {"str", "absent"}
        \/ m = "Feature flag must be a boolean" /\ c.features.t \notin {"bool", "absent"}
        \/ /\ m = "API key must be a string"
           /\ FieldOf(c.cloud_secrets, d).t \notin {"str", "absent"}}

\* C2: when all required keys are present and a typed field of the supplied
\* domain (model_type, its port, its provider, the feature flag, its API key)
\* holds a value of another type, a boolean port included, validation fails
\* with a TypeError; so no such configuration is ever accepted for that domain.
C2_WrongTypeOfDomainRejected ==
    (RequiredPresent /\ WrongTyped(config, domain_name) # {}) => pc # "done"

\* C3: a construction that succeeds for a configured domain d has, under
\* cloud_secrets.d, an API key that is a string, not empty, not the
\* placeholder, and longer than MinApiKeyLen characters.
C3_AcceptedApiKeyIsValid ==
    (pc = "done" /\ domain_name \in DOMAIN config.database_details) =>
        LET api_key == FieldOf(config.cloud_secrets, domain_name)
        IN  /\ api_key.t = "str"
            /\ api_key.v # ""
            /\ api_key.v # "REPLACE_ME"
            /\ Len(api_key.v) > MinApiKeyLen

\* C4 as claimed: when the secrets file does not exist, validation ends with
\* the FileNotFoundError naming the secrets path, whatever the configuration.
C4_MissingFileAlwaysFileNotFound ==
    (Terminal /\ ~secrets_exists) =>
        /\ error.kind = "FileNotFoundError"
        /\ error.arg = {secrets_path}

\* C4 as amended: when the secrets file does not exist, construction never gets
\* past the secrets-file check; it raises the FileNotFoundError naming the
\* secrets path there, and any other error is raised by one of the three checks
\* that run before it.
C4_MissingFileNeverAccepted ==
    ~secrets_exists =>
        /\ pc \in {"validate_required_keys", "validate_types", "check_api_key",
                   "check_secrets_file"}
        /\ log = <<>>
        /\ pc = "check_secrets_file" =>
              /\ stdout = Printed(3)
              /\ error \in {NoError,
                            [kind |-> "FileNotFoundError", msg |-> "Config file not found: ",
                             arg |-> {secrets_path}]}
        /\ error.kind = "FileNotFoundError" => pc = "check_secrets_file"

C4_Witness ==
    /\ ~secrets_exists
    /\ pc = "check_secrets_file"
    /\ error.kind = "FileNotFoundError"

AfterMappings == {"check_domain_config", "log_loaded_config", "read_config", "done"}

\* C5: with D the domains of database_details and C those of cloud_details, the
\* domain-mapping check raises exactly when D \ C is not empty, the keys it
\* reports are D \ C, and domains in C \ D alone let it pass.
C5_MappingFailsIffDbMinusCloud ==
    LET D == DOMAIN config.database_details
        C == DOMAIN config.cloud_details
    IN  /\ (pc = "check_domain_mappings" /\ error # NoError) =>
              /\ D \ C # {}
              /\ error.kind = "ValueError"
              /\ error.msg = "Domains in DB config missing in cloud config: "
              /\ error.arg = D \ C
        /\ pc \in AfterMappings => D \ C = {}

\* the check reported two domains that have a database entry and no cloud entry
C5_Witness ==
    /\ pc = "check_domain_mappings"
    /\ error # NoError
    /\ Cardinality(error.arg) = 2

C7_AcceptedDomainIsDatabaseKey ==
    pc = "done" => domain_name \in DOMAIN config.database_details

\* the first of the required keys, in their fixed order, that the configuration lacks
FirstAbsent ==
    LET order == <<"cloud_details", "database_details", "model_type", "features",
                   "cloud_secrets">>
        absent == {i \in 1..Len(order) : order[i] \notin config.keys}
    IN  IF absent = {} THEN {} ELSE {order[Min(absent)]}

\* C8: when a required top-level key is absent, nothing but the required-key
\* check runs: it raises the ValueError naming the first absent key of the
\* fixed order, and no confirmation, log line or summary is produced.
C8_MissingKeyRaisedFirst ==
    FirstAbsent # {} =>
        /\ pc = "validate_required_keys"
        /\ stdout = <<>>
        /\ log = <<>>
        /\ error \in {NoError,
                      [kind |-> "ValueError", msg |-> "Missing required config key: ",
                       arg |-> FirstAbsent]}
        /\ error = NoError => ENABLED validate_required_keys

\* two required keys are absent and the error names the first of them
C8_Witness ==
    /\ error.kind = "ValueError"
    /\ pc = "validate_required_keys"
    /\ Cardinality({k \in TopKeys \ {"log_level"} : k \notin config.keys}) = 2

\* C9: after a successful construction for domain d the log line, when
\* written, carries d and model_type, and the summary shows the provider of
\* cloud_details.d, model_type, the feature flag and the API key of
\* cloud_secrets.d.
C9_SummaryShowsSuppliedDomain ==
    pc = "done" =>
        /\ \A i \in 1..Len(log) :
              log[i] = [domain |-> domain_name, model |-> config.model_type]
        /\ SubSeq(stdout, Len(Checks) + 1, Len(stdout)) =
              <<Line("Provider:", FieldOf(config.cloud_details, domain_name)),
                Line("Region (model_type):", config.model_type),
                Line("Feature Enabled:", config.features),
                Line("API Key:", FieldOf(config.cloud_secrets, domain_name))>>

\* the level the logging step is to configure: that of a recognized name in
\* any letter case, INFO otherwise
ExpectedLevel ==
    LET lv == IF "log_level" \in config.keys THEN config.log_level ELSE None
    IN  CASE lv.t = "str" /\ lv.v \in {"debug", "DEBUG", "Debug"} -> 10
          [] lv.t = "str" /\ lv.v \in {"error", "ERROR", "Error"} -> 40
          [] OTHER -> 20

\* C10: once the six checks have passed, the logging step does not raise, and
\* it sets the level named by log_level, INFO when log_level is absent,
\* unrecognized or not a string.
C10_LoggingStepNeverFails ==
    /\ ~(pc = "log_loaded_config" /\ error # NoError)
    /\ pc \in {"read_config", "done"} => root_level = ExpectedLevel

====
